---- MODULE Spec2Model ----
(***************************************************************************)
(* Model of the game-state engine of typescript-tetris: the canvas, the    *)
(* tetromino catalogue, collision detection, movement, rotation, gravity   *)
(* and locking, line clear and scoring, and the scan reducer of main().    *)
(* Coordinates are 0-based as in the source; a canvas is a sequence of     *)
(* rows, so cell (x, y) of the source is canvas[y + 1][x + 1] here.        *)
(***************************************************************************)
EXTENDS Integers, Sequences, FiniteSets, TLC

(* ---------------------------------------------------------------- consts *)
GRID_WIDTH == 10
GRID_HEIGHT == 20
TICK_RATE_MS == 50

(* ----------------------------------------------------------------- block *)
\* `undefined` in a canvas cell
NoBlock == [colour |-> "none", isActive |-> FALSE]

createBlock(colour, status) == [colour |-> colour, isActive |-> status]

\* truthiness of a canvas cell: `if (block)`
IsBlock(b) == b.colour # "none"

(* ---------------------------------------------------------------- canvas *)
EmptyRow == [i \in 1..GRID_WIDTH |-> NoBlock]

Canvas == [j \in 1..(GRID_HEIGHT + 2) |-> EmptyRow]

\* canvas[y][x]; an index outside a row reads `undefined`
At(canvas, x, y) ==
    IF y + 1 \in DOMAIN canvas /\ x + 1 \in DOMAIN canvas[y + 1]
    THEN canvas[y + 1][x + 1]
    ELSE NoBlock

(* ------------------------------------------------------------- tetronimo *)
squareBlock == << <<"aqua", 0, 0>>, <<"aqua", 1, 0>>, <<"aqua", 0, 1>>, <<"aqua", 1, 1>> >>
longBlock == << <<"red", 0, 0>>, <<"red", 1, 0>>, <<"red", 2, 0>>, <<"red", 3, 0>> >>
rightAngleBlock == << <<"blue", 0, 0>>, <<"blue", 1, 0>>, <<"blue", 2, 0>>, <<"blue", 2, 1>> >>
leftAngleBlock == << <<"green", 0, 0>>, <<"green", 0, 1>>, <<"green", 1, 0>>, <<"green", 2, 0>> >>
tBlock == << <<"yellow", 0, 0>>, <<"yellow", 1, 0>>, <<"yellow", 2, 0>>, <<"yellow", 1, 1>> >>
zBlock == << <<"purple", 0, 0>>, <<"purple", 1, 0>>, <<"purple", 1, 1>>, <<"purple", 2, 1>> >>
sBlock == << <<"orange", 0, 1>>, <<"orange", 1, 1>>, <<"orange", 1, 0>>, <<"orange", 2, 0>> >>

\* indexed from 0 as in the source: allTetrominoes[i] is AllTetrominoes[i + 1]
allTetrominoes == <<squareBlock, longBlock, rightAngleBlock, leftAngleBlock, tBlock, zBlock, sBlock>>

PieceIds == 0..(Len(allTetrominoes) - 1)

Tetromino(i) == allTetrominoes[i + 1]

(* ------------------------------------------------------------------- RNG *)
\* A seed is a number of milliseconds, Date.now(): it is written in base
\* 2^15 with three digits, lowest first, and the arithmetic of hash is done
\* on digits and on binary digits, as a JavaScript number does it: every
\* result is rounded to the 53 significant bits of a double.
Radix == 32768

Digits(n) == <<n % Radix, (n \div Radix) % Radix, n \div (Radix * Radix)>>

\* RNG.m = 0x80000000 = 2^31, as the number of its binary digits
RNG_m == 31

RNG_a == 1103515245

RNG_c == 12345

\* the product of two numbers of three digits, column by column
Times(x, y) ==
    <<x[1] * y[1],
      x[1] * y[2] + x[2] * y[1],
      x[1] * y[3] + x[2] * y[2] + x[3] * y[1],
      x[2] * y[3] + x[3] * y[2],
      x[3] * y[3],
      0>>

RECURSIVE Carried(_, _, _)
\* the digits of a number given by its columns, from column i on
Carried(cols, i, carry) ==
    IF i > Len(cols) THEN <<>>
    ELSE <<(cols[i] + carry) % Radix>>
            \o Carried(cols, i + 1, (cols[i] + carry) \div Radix)

\* the binary digits of a number given by its digits, lowest first
Binary(digits) ==
    [place \in 1..(15 * Len(digits)) |->
        (digits[((place - 1) \div 15) + 1] \div 2 ^ ((place - 1) % 15)) % 2]

\* the place of the highest binary digit that is 1, or 0
Top(bits) ==
    LET ones == {place \in DOMAIN bits : bits[place] = 1}
    IN IF ones = {} THEN 0
       ELSE CHOOSE high \in ones : \A other \in ones : other <= high

\* a number as a double holds it: 53 significant bits, rounded to the nearest,
\* a tie to the even one
RoundDouble(bits) ==
    LET drop == Top(bits) - 53
    IN IF drop <= 0 THEN bits
       ELSE LET half == bits[drop] = 1
                sticky == \E low \in 1..(drop - 1) : bits[low] = 1
                odd == bits[drop + 1] = 1
                up == half /\ (sticky \/ odd)
            IN [place \in DOMAIN bits |->
                  IF place <= drop THEN 0
                  ELSE IF ~up THEN bits[place]
                  ELSE (bits[place]
                        + (IF \A below \in (drop + 1)..(place - 1) : bits[below] = 1
                           THEN 1 ELSE 0)) % 2]

RECURSIVE AddBits(_, _, _, _)
\* the binary digits of x + y from place k on
AddBits(x, y, k, carry) ==
    IF k > Len(x) THEN <<>>
    ELSE <<(x[k] + y[k] + carry) % 2>>
            \o AddBits(x, y, k + 1, (x[k] + y[k] + carry) \div 2)

RECURSIVE Low(_, _)
\* % RNG.m of a number that is not negative: its 31 lowest binary digits
Low(bits, k) == IF k > RNG_m THEN 0 ELSE bits[k] + 2 * Low(bits, k + 1)

\* RNG.hash
hash(seed) ==
    LET product == RoundDouble(Binary(Carried(Times(Digits(RNG_a), seed), 1, 0)))
        sum == RoundDouble(AddBits(product, Binary(<<RNG_c, 0, 0, 0, 0, 0>>), 1, 0))
    IN Low(sum, 1)

\* RNG.scale with Math.round in the place of Math.floor
scale_round(h) ==
    (Len(allTetrominoes) * (h \div 65536) + 16384
        + (Len(allTetrominoes) * (h % 65536)) \div 65536) \div 32768

\* RNG.scale: hash / m and its product by 7 are exact in a double (hash < 2^31,
\* 7 * hash < 2^34), so the result is floor(7 * hash / 2^31); it is computed
\* on the two halves of hash
scale(h) ==
    (Len(allTetrominoes) * (h \div 65536)
        + (Len(allTetrominoes) * (h % 65536)) \div 65536) \div 32768

(* -------------------------------------------------------------- movement *)
\* the map over every cell that replaces the one at row y, column x; no cell is
\* replaced when (x, y) is not a cell of the canvas
addBlockToCanvas(canvas, block, x, y) ==
    IF y + 1 \in DOMAIN canvas /\ x + 1 \in DOMAIN canvas[y + 1]
    THEN [canvas EXCEPT ![y + 1][x + 1] = block]
    ELSE canvas

removeBlockFromCanvas(canvas, x, y) ==
    IF y + 1 \in DOMAIN canvas /\ x + 1 \in DOMAIN canvas[y + 1]
    THEN [canvas EXCEPT ![y + 1][x + 1] = NoBlock]
    ELSE canvas

\* The row-major list of the coordinates of the cells flagged active: the
\* reduce over the rows and their cells, which appends nothing in a row
\* without an active block.
updateActiveBlocks(canvas) ==
    LET rows == {j \in DOMAIN canvas :
                    \E i \in DOMAIN canvas[j] :
                        IsBlock(canvas[j][i]) /\ canvas[j][i].isActive}
    IN IF rows = {} THEN <<>>
       ELSE LET lo == CHOOSE j \in rows : \A k \in rows : j <= k
                hi == CHOOSE j \in rows : \A k \in rows : j >= k
                all == [n \in 1..((hi - lo + 1) * GRID_WIDTH) |->
                          [x |-> (n - 1) % GRID_WIDTH,
                           y |-> lo - 1 + ((n - 1) \div GRID_WIDTH)]]
                act(p) == IsBlock(At(canvas, p.x, p.y)) /\ At(canvas, p.x, p.y).isActive
            IN SelectSeq(all, act)

(* ------------------------------------------------------------------ util *)
\* CollidesAt that looks at the edges of the canvas only, not at locked blocks
CollidesAt_edges(canvas, block, direction) ==
    LET nx == direction.x + block.x
        ny == direction.y + block.y
    IN ny >= GRID_HEIGHT + 2 \/ ny <= 0 \/ nx < 0 \/ nx >= GRID_WIDTH

\* CollidesAt with the top edge above row 0: a destination in row 0 is free
CollidesAt_top(canvas, block, direction) ==
    LET nx == direction.x + block.x
        ny == direction.y + block.y
    IN IF ny >= GRID_HEIGHT + 2 \/ ny < 0 THEN TRUE
       ELSE IF IsBlock(At(canvas, nx, ny)) \/ nx < 0 \/ nx >= GRID_WIDTH
            THEN ~At(canvas, nx, ny).isActive
            ELSE FALSE

\* one step of the reduce of checkCollision: does this block collide?
CollidesAt(canvas, block, direction) ==
    LET nx == direction.x + block.x
        ny == direction.y + block.y
    IN IF ny >= GRID_HEIGHT + 2 \/ ny <= 0 THEN TRUE
       ELSE IF IsBlock(At(canvas, nx, ny)) \/ nx < 0 \/ nx >= GRID_WIDTH
            THEN ~At(canvas, nx, ny).isActive
            ELSE FALSE

checkCollision(canvas, blocks, direction) ==
    \E n \in DOMAIN blocks : CollidesAt(canvas, blocks[n], direction)

moveBlock(canvas, x, y, newX, newY) ==
    LET block == At(canvas, x, y)
    IN IF newX < 0 \/ newX >= GRID_WIDTH \/ newY < 0 \/ newY >= GRID_HEIGHT + 2
       THEN canvas
       ELSE IF newX >= 0 /\ newX < GRID_WIDTH /\ ~IsBlock(At(canvas, newX, newY))
            THEN addBlockToCanvas(removeBlockFromCanvas(canvas, x, y), block, newX, newY)
            ELSE canvas

\* the callback of the reduce / reduceRight of moveActiveTetromino
MoveStep(canvas, positions, position, direction) ==
    IF checkCollision(canvas, positions, direction)
    THEN canvas
    ELSE moveBlock(canvas, position.x, position.y,
                   position.x + direction.x, position.y + direction.y)

RECURSIVE MoveReduce(_, _, _, _)
\* activeBlockPositions.reduce(..., canvas) from index n on
MoveReduce(canvas, positions, direction, n) ==
    IF n > Len(positions) THEN canvas
    ELSE MoveReduce(MoveStep(canvas, positions, positions[n], direction),
                    positions, direction, n + 1)

RECURSIVE MoveReduceRight(_, _, _, _)
\* activeBlockPositions.reduceRight(..., canvas) from index n down
MoveReduceRight(canvas, positions, direction, n) ==
    IF n < 1 THEN canvas
    ELSE MoveReduceRight(MoveStep(canvas, positions, positions[n], direction),
                         positions, direction, n - 1)

\* moveActiveTetromino that stores the positions it has read also when it
\* moves nothing
moveActiveTetromino_refresh(state, direction) ==
    LET activeBlockPositions == updateActiveBlocks(state.canvas)
    IN IF Len(activeBlockPositions) > 0 /\ direction.x < 0
       THEN LET updatedCanvas == MoveReduce(state.canvas, activeBlockPositions, direction, 1)
            IN [state EXCEPT !.canvas = updatedCanvas,
                             !.activeBlockPositions = updateActiveBlocks(updatedCanvas)]
       ELSE IF Len(activeBlockPositions) > 0 /\ (direction.x > 0 \/ direction.y > 0)
       THEN LET updatedCanvas == MoveReduceRight(state.canvas, activeBlockPositions,
                                                 direction, Len(activeBlockPositions))
            IN [state EXCEPT !.canvas = updatedCanvas,
                             !.activeBlockPositions = updateActiveBlocks(updatedCanvas)]
       ELSE [state EXCEPT !.activeBlockPositions = activeBlockPositions]

moveActiveTetromino(state, direction) ==
    LET activeBlockPositions == updateActiveBlocks(state.canvas)
    IN IF Len(activeBlockPositions) > 0 /\ direction.x < 0
       THEN LET updatedCanvas == MoveReduce(state.canvas, activeBlockPositions, direction, 1)
            IN [state EXCEPT !.canvas = updatedCanvas,
                             !.activeBlockPositions = updateActiveBlocks(updatedCanvas)]
       ELSE IF Len(activeBlockPositions) > 0 /\ (direction.x > 0 \/ direction.y > 0)
       THEN LET updatedCanvas == MoveReduceRight(state.canvas, activeBlockPositions,
                                                 direction, Len(activeBlockPositions))
            IN [state EXCEPT !.canvas = updatedCanvas,
                             !.activeBlockPositions = updateActiveBlocks(updatedCanvas)]
       ELSE state

RECURSIVE SpawnReduce_short(_, _, _, _, _)
\* SpawnReduce that leaves out the last block
SpawnReduce_short(canvas, blocks, x, y, n) ==
    IF n > Len(blocks) - 1 THEN canvas
    ELSE SpawnReduce_short(addBlockToCanvas(canvas, createBlock(blocks[n][1], TRUE),
                                            blocks[n][2] + x, blocks[n][3] + y),
                           blocks, x, y, n + 1)

RECURSIVE SpawnReduce(_, _, _, _, _)
\* tetromino.blocks.reduce(..., canvas) of spawnTetromino from index n on
SpawnReduce(canvas, blocks, x, y, n) ==
    IF n > Len(blocks) THEN canvas
    ELSE SpawnReduce(addBlockToCanvas(canvas, createBlock(blocks[n][1], TRUE),
                                      blocks[n][2] + x, blocks[n][3] + y),
                     blocks, x, y, n + 1)

\* spawnTetromino one column further right
spawnTetromino_shifted(canvas, blocks, x, y) == SpawnReduce(canvas, blocks, x + 1, y, 1)

spawnTetromino(canvas, blocks, x, y) == SpawnReduce(canvas, blocks, x, y, 1)

\* makeAllBlocksInactive that leaves the blocks active
makeAllBlocksInactive_none(state) == [state EXCEPT !.activeBlockPositions = <<>>]

makeAllBlocksInactive(state) ==
    [state EXCEPT
        !.canvas = [j \in DOMAIN state.canvas |->
                      [i \in DOMAIN state.canvas[j] |->
                          IF IsBlock(state.canvas[j][i])
                          THEN [state.canvas[j][i] EXCEPT !.isActive = FALSE]
                          ELSE state.canvas[j][i]]],
        !.activeBlockPositions = <<>>]

\* the inner reduce of checkForTetris: every cell is a block that is not active
isTetris(row) == \A i \in DOMAIN row : IsBlock(row[i]) /\ ~row[i].isActive

\* ClearReduce that looks at the bottom row only
ClearReduce_bottom(acc, canvas, n) ==
    IF isTetris(canvas[Len(canvas)])
    THEN <<EmptyRow>> \o SubSeq(canvas, 1, Len(canvas) - 1)
    ELSE canvas

\* ClearReduce that replaces the topmost complete row only
ClearReduce_first(acc, canvas, n) ==
    LET full == {fullRow \in DOMAIN canvas : isTetris(canvas[fullRow])}
    IN IF full = {} THEN canvas
       ELSE LET upper == CHOOSE fullRow \in full : \A lower \in full : fullRow <= lower
            IN <<EmptyRow>> \o SubSeq(canvas, 1, upper - 1)
                            \o SubSeq(canvas, upper + 1, Len(canvas))

RECURSIVE ClearReduce(_, _, _)
\* state.canvas.reduce(..., []) of checkForTetris from row n on
ClearReduce(acc, canvas, n) ==
    IF n > Len(canvas) THEN acc
    ELSE IF isTetris(canvas[n])
         THEN ClearReduce(<<EmptyRow>> \o acc, canvas, n + 1)
         ELSE ClearReduce(Append(acc, canvas[n]), canvas, n + 1)

\* checkForTetris with 50 points for a row at every level
checkForTetris_flat(state) ==
    LET updatedCanvas == ClearReduce(<<>>, state.canvas, 1)
        rowsReplaced == Len(SelectSeq(state.canvas, isTetris))
        score == state.score + rowsReplaced * 50
        level == (score \div 500) + 1
    IN [state EXCEPT
          !.canvas = updatedCanvas \o [n \in 1..rowsReplaced |-> EmptyRow],
          !.score = score,
          !.level = level]

\* checkForTetris with the replacement rows put above the grid
checkForTetris_above(state) ==
    LET updatedCanvas == ClearReduce(<<>>, state.canvas, 1)
        rowsReplaced == Len(SelectSeq(state.canvas, isTetris))
        score == state.score + rowsReplaced * ((100 * state.level) \div 2)
        level == (score \div 500) + 1
    IN [state EXCEPT
          !.canvas = [n \in 1..rowsReplaced |-> EmptyRow] \o updatedCanvas,
          !.score = score,
          !.level = level]

checkForTetris(state) ==
    LET updatedCanvas == ClearReduce(<<>>, state.canvas, 1)
        rowsReplaced == Len(SelectSeq(state.canvas, isTetris))
        score == state.score + rowsReplaced * ((100 * state.level) \div 2)
        level == (score \div 500) + 1
    IN [state EXCEPT
          !.canvas = updatedCanvas \o [n \in 1..rowsReplaced |-> EmptyRow],
          !.score = score,
          !.level = level]

\* Math.round(q / n) for integers q and n > 0: the nearest integer, a tie going up
Round(q, n) == (2 * q + n) \div (2 * n)

\* rotationHelper that swaps the coordinates: a reflection in place of a rotation
rotationHelper_transpose(block, rotationDirection) == [x |-> block.y, y |-> block.x]

\* the rotation matrix applied to one block (coordinates relative to the centre)
rotationHelper(block, rotationDirection) ==
    IF rotationDirection = 1
    THEN [x |-> block.x * 0 + block.y * 1, y |-> block.x * (-1) + block.y * 0]
    ELSE IF rotationDirection = -1
    THEN [x |-> block.x * 0 + block.y * (-1), y |-> block.x * 1 + block.y * 0]
    ELSE block

RECURSIVE SumX(_, _)
SumX(positions, n) == IF n > Len(positions) THEN 0 ELSE positions[n].x + SumX(positions, n + 1)

RECURSIVE SumY(_, _)
SumY(positions, n) == IF n > Len(positions) THEN 0 ELSE positions[n].y + SumY(positions, n + 1)

\* updatedBlocks with the centre of rotation rounded down to a cell
updatedBlocks_wholeCentre(activeBlockPositions, direction) ==
    LET len == Len(activeBlockPositions)
        cx == SumX(activeBlockPositions, 1) \div len
        cy == SumY(activeBlockPositions, 1) \div len
        translated(b) == [x |-> b.x - cx, y |-> b.y - cy]
        rotated(b) == rotationHelper(translated(b), direction)
    IN [n \in 1..len |->
          [x |-> rotated(activeBlockPositions[n]).x + cx,
           y |-> rotated(activeBlockPositions[n]).y + cy]]

\* The rotated coordinates of rotateTetromino.  The centre of rotation is
\* (sx / len, sy / len), not rounded; the coordinates relative to it are kept
\* multiplied by len, so that they stay integers, and Round divides by len.
updatedBlocks(activeBlockPositions, direction) ==
    LET len == Len(activeBlockPositions)
        sx == SumX(activeBlockPositions, 1)
        sy == SumY(activeBlockPositions, 1)
        translated(b) == [x |-> len * b.x - sx, y |-> len * b.y - sy]
        rotated(b) == rotationHelper(translated(b), direction)
    IN [n \in 1..len |->
          [x |-> Round(rotated(activeBlockPositions[n]).x + sx, len),
           y |-> Round(rotated(activeBlockPositions[n]).y + sy, len)]]

RECURSIVE RemoveReduce(_, _, _)
\* activeBlockPositions.reduce(removeBlockFromCanvas, state.canvas) from index n on
RemoveReduce(canvas, positions, n) ==
    IF n > Len(positions) THEN canvas
    ELSE RemoveReduce(removeBlockFromCanvas(canvas, positions[n].x, positions[n].y),
                      positions, n + 1)

\* rotateTetromino with a wall kick: a rotation that collides is tried again
\* one column to the right
rotateTetromino_kick(state, direction) ==
    LET activeBlockPositions == updateActiveBlocks(state.canvas)
    IN IF Len(activeBlockPositions) = 0 THEN state
       ELSE LET removedActiveBlock == RemoveReduce(state.canvas, activeBlockPositions, 1)
                updated == updatedBlocks(activeBlockPositions, direction)
                kicked == [n \in 1..Len(updated) |-> [x |-> updated[n].x + 1, y |-> updated[n].y]]
                first == At(state.canvas, activeBlockPositions[1].x, activeBlockPositions[1].y)
                colour == IF IsBlock(first) THEN first.colour ELSE "blue"
                tetromino(blocks) == [n \in 1..Len(blocks) |-> <<colour, blocks[n].x, blocks[n].y>>]
            IN IF ~checkCollision(state.canvas, updated, [x |-> 0, y |-> 0])
               THEN [state EXCEPT
                       !.canvas = spawnTetromino(removedActiveBlock, tetromino(updated), 0, 0),
                       !.activeBlockPositions = updated]
               ELSE IF ~checkCollision(state.canvas, kicked, [x |-> 0, y |-> 0])
               THEN [state EXCEPT
                       !.canvas = spawnTetromino(removedActiveBlock, tetromino(kicked), 0, 0),
                       !.activeBlockPositions = kicked]
               ELSE state

rotateTetromino(state, direction) ==
    LET activeBlockPositions == updateActiveBlocks(state.canvas)
    IN IF Len(activeBlockPositions) = 0 THEN state
       ELSE LET removedActiveBlock == RemoveReduce(state.canvas, activeBlockPositions, 1)
                updated == updatedBlocks(activeBlockPositions, direction)
                first == At(state.canvas, activeBlockPositions[1].x, activeBlockPositions[1].y)
                colour == IF IsBlock(first) THEN first.colour ELSE "blue"
                updatedTetronimo == [n \in 1..Len(updated) |->
                                        <<colour, updated[n].x, updated[n].y>>]
            IN IF checkCollision(state.canvas, updated, [x |-> 0, y |-> 0])
               THEN state
               ELSE [state EXCEPT
                       !.canvas = spawnTetromino(removedActiveBlock, updatedTetronimo, 0, 0),
                       !.activeBlockPositions = updated]

(* ------------------------------------------------------------------ main *)
Down == [x |-> 0, y |-> 1]

\* The first active block the row and column sweep of applyGravity meets from
\* (row, col) on: the sweep runs along a row from col to the last column, then
\* along the rows above from column 0.  The set is empty when it meets none.
SweepHits(canvas, row, col) ==
    LET active == updateActiveBlocks(canvas)
        ahead == {n \in DOMAIN active :
                    active[n].y < row \/ (active[n].y = row /\ active[n].x >= col)}
    IN {active[n] : n \in {m \in ahead :
            \A k \in ahead : active[k].y < active[m].y
                             \/ (active[k].y = active[m].y /\ active[k].x >= active[m].x)}}

RECURSIVE applyGravity(_, _, _)
\* The calls that only step to the next cell are folded into SweepHits; the
\* recursion here is the one after the piece has been moved down.
applyGravity(state, row, col) ==
    LET hits == SweepHits(state.canvas, row, col)
    IN IF hits = {} THEN state
       ELSE LET hit == CHOOSE p \in hits : TRUE
            IN IF hit.y = GRID_HEIGHT + state.level
                  \/ checkCollision(state.canvas, state.activeBlockPositions, Down)
               THEN makeAllBlocksInactive(state)
               ELSE applyGravity(
                      [state EXCEPT !.canvas = moveActiveTetromino(state, Down).canvas],
                      hit.y - 1, hit.x)

\* initialState; the piece drawn when the module is loaded is first
initialState(first) ==
    [canvas |-> Canvas,
     previewCanvas |-> Canvas,
     activeBlockPositions |-> <<>>,
     score |-> 0,
     level |-> 1,
     highScore |-> 0,
     gameEnd |-> FALSE,
     nextTetromino |-> first]

\* greyOut with every block replaced by createBlock("grey"), active by default
greyOut_active(state) ==
    [state EXCEPT
        !.canvas = [j \in DOMAIN state.canvas |->
                      [i \in DOMAIN state.canvas[j] |->
                          IF IsBlock(state.canvas[j][i])
                          THEN createBlock("grey", TRUE)
                          ELSE state.canvas[j][i]]]]

\* the game-over branch of the reducer for an event that is not a rotation
greyOut(state) ==
    [state EXCEPT
        !.canvas = [j \in DOMAIN state.canvas |->
                      [i \in DOMAIN state.canvas[j] |->
                          IF IsBlock(state.canvas[j][i])
                          THEN [state.canvas[j][i] EXCEPT !.colour = "grey"]
                          ELSE state.canvas[j][i]]]]

\* topRowOccupied looking at row 1
topRowOccupied_row1(canvas) ==
    \E i \in DOMAIN canvas[2] : IsBlock(canvas[2][i]) /\ ~canvas[2][i].isActive

topRowOccupied(canvas) ==
    \E i \in DOMAIN canvas[1] : IsBlock(canvas[1][i]) /\ ~canvas[1][i].isActive

\* spawnBranch keeping the larger of the old high score and the score
spawnBranch_max(state, newBlock) ==
    LET updatedState == checkForTetris(state)
    IN IF topRowOccupied(updatedState.canvas)
       THEN [updatedState EXCEPT
               !.highScore = IF updatedState.score > state.highScore
                             THEN updatedState.score ELSE state.highScore,
               !.gameEnd = TRUE]
       ELSE [updatedState EXCEPT
               !.canvas = spawnTetromino(updatedState.canvas,
                                         Tetromino(updatedState.nextTetromino), 4, 0),
               !.previewCanvas = spawnTetromino(Canvas, Tetromino(newBlock), 2, 3),
               !.activeBlockPositions = updateActiveBlocks(updatedState.canvas),
               !.nextTetromino = newBlock]

\* spawnBranch that spawns the next piece also when it ends the game
spawnBranch_andSpawn(state, newBlock) ==
    LET updatedState == checkForTetris(state)
        spawned == [updatedState EXCEPT
                      !.canvas = spawnTetromino(updatedState.canvas,
                                                Tetromino(updatedState.nextTetromino), 4, 0),
                      !.previewCanvas = spawnTetromino(Canvas, Tetromino(newBlock), 2, 3),
                      !.activeBlockPositions = updateActiveBlocks(updatedState.canvas),
                      !.nextTetromino = newBlock]
    IN IF topRowOccupied(updatedState.canvas)
       THEN [spawned EXCEPT !.highScore = updatedState.score, !.gameEnd = TRUE]
       ELSE spawned

\* the tick branch of the reducer when no block is active; newBlock is the draw
spawnBranch(state, newBlock) ==
    LET updatedState == checkForTetris(state)
    IN IF topRowOccupied(updatedState.canvas)
       THEN [updatedState EXCEPT !.highScore = updatedState.score, !.gameEnd = TRUE]
       ELSE [updatedState EXCEPT
               !.canvas = spawnTetromino(updatedState.canvas,
                                         Tetromino(updatedState.nextTetromino), 4, 0),
               !.previewCanvas = spawnTetromino(Canvas, Tetromino(newBlock), 2, 3),
               !.activeBlockPositions = updateActiveBlocks(updatedState.canvas),
               !.nextTetromino = newBlock]

\* gravityBranch that leaves the stored activeBlockPositions as they are
gravityBranch_keep(state) ==
    [state EXCEPT !.canvas = applyGravity(state, GRID_HEIGHT + 1, 0).canvas]

\* gravityBranch that gives a point for every tick a piece falls
gravityBranch_points(state) ==
    [state EXCEPT
        !.canvas = applyGravity(state, GRID_HEIGHT + 1, 0).canvas,
        !.activeBlockPositions = updateActiveBlocks(state.canvas),
        !.score = state.score + 1]

\* the tick branch of the reducer when a block is active
gravityBranch(state) ==
    [state EXCEPT
        !.canvas = applyGravity(state, GRID_HEIGHT + 1, 0).canvas,
        !.activeBlockPositions = updateActiveBlocks(state.canvas)]

\* restart with the high score forgotten
restart_forget(state, first) == initialState(first)

\* the game-over branch of the reducer for a rotation: a fresh game
restart(state, first) == [initialState(first) EXCEPT !.highScore = state.highScore]

\* The state object handed to the reducer as it reads once the reducer has
\* returned.  The game-over branch maps over the rows but assigns
\* block.colour = "grey" on the block objects of that state; every other
\* branch builds new rows and new blocks and leaves its argument alone.
argumentAfter(state, event) ==
    IF state.gameEnd /\ event.type # "rotation"
    THEN [state EXCEPT
            !.canvas = [j \in DOMAIN state.canvas |->
                          [i \in DOMAIN state.canvas[j] |->
                              IF IsBlock(state.canvas[j][i])
                              THEN [state.canvas[j][i] EXCEPT !.colour = "grey"]
                              ELSE state.canvas[j][i]]]]
    ELSE state

\* reducer in which a movement command is followed by the tick branch
reducer_andTick(state, event, first, newBlock) ==
    IF state.gameEnd
    THEN IF event.type = "rotation"
         THEN restart(state, first)
         ELSE greyOut(state)
    ELSE IF event.type # "movement" /\ event.type # "rotation"
    THEN IF Len(updateActiveBlocks(state.canvas)) = 0
         THEN spawnBranch(state, newBlock)
         ELSE gravityBranch(state)
    ELSE IF event.type = "movement"
    THEN IF Len(updateActiveBlocks(state.canvas)) = 0
         THEN spawnBranch(state, newBlock)
         ELSE gravityBranch(moveActiveTetromino(state, event.direction))
    ELSE rotateTetromino(state, event.direction)

\* the function given to scan: the state after one event.  first is the
\* nextTetromino of initialState, newBlock the piece a tick draws.
reducer(state, event, first, newBlock) ==
    IF state.gameEnd
    THEN IF event.type = "rotation"
         THEN restart(state, first)
         ELSE greyOut(state)
    ELSE IF event.type # "movement" /\ event.type # "rotation"
    THEN IF Len(updateActiveBlocks(state.canvas)) = 0
         THEN spawnBranch(state, newBlock)
         ELSE gravityBranch(state)
    ELSE IF event.type = "movement"
    THEN moveActiveTetromino(state, event.direction)
    ELSE rotateTetromino(state, event.direction)

(* ----------------------------------------------------------- event source *)
\* The three streams merged in main(): interval ticks, movement keys and
\* rotation keys.  The source of events follows one of the Scripts from the
\* initial state and may leave it at any point for at most MaxFree events
\* chosen freely; every behaviour is a sequence of events main() can receive.
MaxFree == 1

Left == [x |-> -1, y |-> 0]
Right == [x |-> 1, y |-> 0]

TickEvent == [type |-> "tick"]
MovementEvent(d) == [type |-> "movement", direction |-> d]
RotationEvent(r) == [type |-> "rotation", direction |-> r]

Rep(n, items) == [i \in 1..(n * Len(items)) |-> items[((i - 1) % Len(items)) + 1]]

\* a piece that falls where it is spawned; next is the piece the spawn tick draws
Drop(next) == << <<"T", next>>, <<"F", 0>> >>

\* a bar that is turned upright in rows 1..4 (column 6) and falls in column col
Upright(next, col) ==
    << <<"T", next>>, <<"T", 0>>, <<"T", 0>>, <<"CW", 0>> >>
        \o (IF col >= 6 THEN Rep(col - 6, << <<"R", 0>> >>) ELSE Rep(6 - col, << <<"L", 0>> >>))
        \o << <<"F", 0>> >>

\* a bar that lies down in columns 0..3
LyingLeft(next) ==
    << <<"T", next>>, <<"T", 0>> >> \o Rep(4, << <<"L", 0>> >>) \o << <<"F", 0>> >>

\* the game-over tick, two events in game-over and the restart
OverAndRestart == << <<"T", 0>>, <<"T", 0>>, <<"L", 0>>, <<"CCW", 0>> >>

\* five upright bars pile up in column 6 to row 2; a bar comes to lie on them
\* in row 1; a square is spawned onto that bar and falls; the next bar cannot
\* leave row 0
PileUp == Rep(5, Upright(1, 6)) \o Drop(0) \o Drop(1) \o Drop(0)

\* ten upright bars side by side: rows 18..21 are complete
TenBars == [n \in 1..10 |-> Upright(1, n - 1)]

RECURSIVE Concat(_, _)
Concat(seqs, n) == IF n > Len(seqs) THEN <<>> ELSE seqs[n] \o Concat(seqs, n + 1)

\* a piece is spawned, descends two rows, is turned r times, is pushed to a
\* wall and falls; next is the piece its spawn tick draws
Turned(next, r, push) ==
    << <<"T", next>>, <<"T", 0>>, <<"T", 0>> >> \o Rep(r, << <<"CW", 0>> >>)
        \o << <<"T", 0>> >> \o Rep(6, << <<push, 0>> >>) \o << <<"D", 0>>, <<"F", 0>> >>

FixedScripts == <<
    \* squares pile up in columns 4 and 5 until the game is over
    [first |-> 0, items |-> Rep(11, Drop(0)) \o OverAndRestart \o Drop(0)],
    \* four bars complete row 21 and the game is over after a pile-up; the
    \* second game is over without a cleared row
    [first |-> 1,
     items |-> LyingLeft(1) \o Drop(1) \o Upright(1, 8) \o Upright(1, 9)
               \o PileUp \o OverAndRestart \o PileUp \o OverAndRestart \o Drop(0)],
    \* three times ten upright bars: twelve rows are cleared and level 2 is
    \* reached; a bar and two squares follow at level 2, and ten more upright
    \* bars complete four rows with them
    [first |-> 1,
     items |-> Rep(3, Concat(TenBars, 1)) \o Drop(0) \o Drop(0) \o Drop(1)
               \o Concat(TenBars, 1) \o Drop(0)]
  >>

\* every piece in each of its orientations, pushed to the left or the right wall
TurnedScripts ==
    [n \in 1..28 |->
        [first |-> (n - 1) \div 4,
         items |-> Turned(0, (n - 1) % 4, IF n % 2 = 0 THEN "L" ELSE "R") \o Drop(0)]]

Scripts == FixedScripts \o TurnedScripts

\* state is the accumulator of scan, prev the value it had when the last event
\* arrived and given the object that held that value, read after the event
VARIABLES state, prev, given, event, first, script, pc, free

vars == <<state, prev, given, event, first, script, pc, free>>

Init ==
    /\ script \in DOMAIN Scripts
    /\ first = Scripts[script].first
    /\ state = initialState(first)
    /\ prev = state
    /\ given = state
    /\ event = [type |-> "init"]
    /\ pc = 1
    /\ free = MaxFree

NoActive(s) == Len(updateActiveBlocks(s.canvas)) = 0

\* the event source hands ev to the reducer; newBlock is what a tick draws
Step(ev, item, newBlock) ==
    LET next == reducer(state, ev, first, newBlock)
    IN /\ \/ /\ pc \in DOMAIN Scripts[script].items
             /\ Scripts[script].items[pc][1] = item
             /\ item = "T" => Scripts[script].items[pc][2] = newBlock
             /\ item = "F" => newBlock = 0
             /\ pc' = IF item = "F" /\ ~NoActive(next) THEN pc ELSE pc + 1
             /\ free' = free
          \/ /\ free > 0
             /\ item \notin {"F"}
             /\ free' = free - 1
             /\ pc' = 0
       /\ state' = next
       /\ prev' = state
       /\ given' = argumentAfter(state, ev)
       /\ event' = ev
       /\ UNCHANGED <<first, script>>

\* a tick draws a piece only in the branch that spawns
Draws(s) == IF ~s.gameEnd /\ NoActive(s) THEN PieceIds ELSE {0}

Tick ==
    \E item \in {"T", "F"} : \E newBlock \in Draws(state) :
        Step(TickEvent, item, newBlock)

Movement ==
    \/ Step(MovementEvent(Left), "L", 0)
    \/ Step(MovementEvent(Right), "R", 0)
    \/ Step(MovementEvent(Down), "D", 0)

Rotation ==
    \/ Step(RotationEvent(1), "CW", 0)
    \/ Step(RotationEvent(-1), "CCW", 0)

Next == Tick \/ Movement \/ Rotation

Spec == Init /\ [][Next]_vars

\* the scripted games alone: no event leaves the script
InitFall ==
    /\ script \in DOMAIN Scripts
    /\ first = Scripts[script].first
    /\ state = initialState(first)
    /\ prev = state
    /\ given = state
    /\ event = [type |-> "init"]
    /\ pc = 1
    /\ free = 0

SpecFall == InitFall /\ [][Next]_vars

(* ----------------------------------------------------------------- draws *)
\* The draws of the next piece: one when the initial state is built and one
\* in every tick that spawns, each from the clock.  The seeds are the small
\* numbers and the readings of a clock every TICK_RATE_MS from
\* 1793779200000 on.
MaxSeed == 63

Now == <<28672, 19236, 1670>>

Seeds ==
    {Digits(n) : n \in 0..MaxSeed}
        \cup {Carried(<<Now[1] + TICK_RATE_MS * n, Now[2], Now[3]>>, 1, 0) : n \in 0..MaxSeed}

\* allTetrominoes[RNG.scale(RNG.hash(Date.now()))], as an index, for every seed
Drawn == [seed \in Seeds |-> scale(hash(seed))]

InitRNG ==
    \E seed \in Seeds :
        /\ script = 1
        /\ first = Drawn[seed]
        /\ state = initialState(first)
        /\ prev = state
        /\ given = state
        /\ event = [type |-> "init", seed |-> seed]
        /\ pc = 0
        /\ free = 0

\* a tick that spawns draws the piece after the one it spawns
Draw ==
    \E seed \in Seeds :
        /\ ~state.gameEnd
        /\ NoActive(state)
        /\ state' = reducer(state, TickEvent, first, Drawn[seed])
        /\ prev' = state
        /\ given' = argumentAfter(state, TickEvent)
        /\ event' = [type |-> "tick", seed |-> seed]
        /\ UNCHANGED <<first, script, pc, free>>

NextRNG == Draw

SpecRNG == InitRNG /\ [][NextRNG]_vars

(* ------------------------------------------------------------ ticks alone *)
\* Games without a command: every event is a tick.  The first piece and the
\* first MaxDraws draws are any piece; after them the draws go through the
\* catalogue in steps of script, which is one of Strides here (0 draws the
\* same piece again and again, 1 goes round the catalogue).  pc counts the
\* ticks.
MaxDraws == 1

Strides == {0, 1}

InitIdle ==
    /\ script \in Strides
    /\ first \in PieceIds
    /\ state = initialState(first)
    /\ prev = state
    /\ given = state
    /\ event = [type |-> "init"]
    /\ pc = 0
    /\ free = MaxDraws

\* the pieces the tick may draw
IdleDraws ==
    IF state.gameEnd \/ ~NoActive(state) THEN {0}
    ELSE IF free > 0 THEN PieceIds
    ELSE {(state.nextTetromino + script) % Len(allTetrominoes)}

IdleTick ==
    /\ ~state.gameEnd
    /\ \E newBlock \in IdleDraws :
          state' = reducer(state, TickEvent, first, newBlock)
    /\ prev' = state
    /\ given' = argumentAfter(state, TickEvent)
    /\ event' = TickEvent
    /\ pc' = pc + 1
    /\ free' = IF NoActive(state) /\ free > 0 THEN free - 1 ELSE free
    /\ UNCHANGED <<first, script>>

NextIdle == IdleTick

SpecIdle == InitIdle /\ [][NextIdle]_vars

(* ---------------------------------------------------------------- claims *)
\* The vocabulary of the claims, defined on a canvas without the operators of
\* the engine.  prev is the state the last event was handled in.
height == GRID_HEIGHT + 2

CellsOf(canvas, j) == {[x |-> i - 1, y |-> j - 1] : i \in 1..GRID_WIDTH}

ActiveCells(canvas) ==
    UNION {{p \in CellsOf(canvas, j) : canvas[j][p.x + 1].colour # "none"
                                       /\ canvas[j][p.x + 1].isActive} :
           j \in {k \in DOMAIN canvas : \E i \in 1..GRID_WIDTH : canvas[k][i].isActive}}

LockedCells(canvas) ==
    UNION {{p \in CellsOf(canvas, j) : canvas[j][p.x + 1].colour # "none"
                                       /\ ~canvas[j][p.x + 1].isActive} :
           j \in {k \in DOMAIN canvas : \E i \in 1..GRID_WIDTH : canvas[k][i].colour # "none"}}

Shift(cells, dx, dy) == {[x |-> p.x + dx, y |-> p.y + dy] : p \in cells}

InGrid(p) == p.x >= 0 /\ p.x < GRID_WIDTH /\ p.y >= 0 /\ p.y < height

\* some active cell cannot go to its destination: it is outside the grid or locked
Blocked(canvas, dx, dy) ==
    \E q \in Shift(ActiveCells(canvas), dx, dy) : ~InGrid(q) \/ q \in LockedCells(canvas)

FullLocked(row) == \A i \in 1..GRID_WIDTH : row[i].colour # "none" /\ ~row[i].isActive

CompleteRows(canvas) == {j \in DOMAIN canvas : FullLocked(canvas[j])}

\* the cells a piece occupies when it is spawned at column 4, row 0
SpawnCells(piece) == {[x |-> Tetromino(piece)[n][2] + 4, y |-> Tetromino(piece)[n][3]] : n \in 1..4}

TickOn(s) == event.type = "tick" /\ ~s.gameEnd

\* a tick that runs the line clear and then spawns or ends the game
SpawnTick == TickOn(prev) /\ ActiveCells(prev.canvas) = {}

\* a tick that runs applyGravity
GravityTick == TickOn(prev) /\ ActiveCells(prev.canvas) # {}

\* C1: in every reachable state the main grid has GRID_HEIGHT + 2 = 22 rows
\* and every row has GRID_WIDTH = 10 entries.
C1_GridShape ==
    /\ Len(state.canvas) = height
    /\ \A j \in DOMAIN state.canvas : Len(state.canvas[j]) = GRID_WIDTH

\* C2: checkForTetris, applied to a grid with k complete rows, returns a grid
\* with the same number of rows: k empty rows on top, then the other rows in
\* their order; the score grows by k * 100 * level / 2 with the level before.
C2_LineClear ==
    SpawnTick =>
        LET c == prev.canvas
            r == checkForTetris(prev)
            k == Cardinality(CompleteRows(c))
            kept == SelectSeq([j \in 1..Len(c) |-> j], LAMBDA j : j \notin CompleteRows(c))
        IN /\ Len(r.canvas) = Len(c)
           /\ \A j \in 1..k : r.canvas[j] = EmptyRow
           /\ \A n \in 1..Len(kept) : r.canvas[k + n] = c[kept[n]]
           /\ r.score = prev.score + (k * 100 * prev.level) \div 2

\* C3: a tick on a piece that cannot move down one row leaves no active cell:
\* the piece is locked by that same tick.
C3_LockSameTick ==
    (GravityTick /\ Blocked(prev.canvas, 0, 1)) =>
        /\ ActiveCells(state.canvas) = {}
        /\ ActiveCells(prev.canvas) \subseteq LockedCells(state.canvas)

\* C4: a tick on a piece whose way down is free moves every active cell down
\* by exactly one row, in its column.
C4_GravityOneRow ==
    (GravityTick /\ ~Blocked(prev.canvas, 0, 1)) =>
        ActiveCells(state.canvas) = Shift(ActiveCells(prev.canvas), 0, 1)

\* C5: a movement command with a blocked destination leaves the whole state
\* as it was: the grid, the active cells and the stored active positions.
C5_BlockedMoveNoChange ==
    (event.type = "movement" /\ ~prev.gameEnd /\ ActiveCells(prev.canvas) # {}
        /\ Blocked(prev.canvas, event.direction.x, event.direction.y)) =>
        state = prev

\* row 0 as the line clear of a spawn tick leaves it: a new empty row when a
\* row was complete, row 0 itself otherwise
TopAfterClear(canvas) == IF CompleteRows(canvas) # {} THEN EmptyRow ELSE canvas[1]

TopLocked(canvas) ==
    \E i \in 1..GRID_WIDTH : TopAfterClear(canvas)[i].colour # "none"
                             /\ ~TopAfterClear(canvas)[i].isActive

C7_SpawnBlockedEndsGame ==
    SpawnTick =>
        LET cleared == checkForTetris(prev).canvas
        IN /\ (SpawnCells(prev.nextTetromino) \cap LockedCells(cleared) # {})
                => (state.gameEnd /\ ActiveCells(state.canvas) = {})
           /\ LockedCells(cleared) \subseteq LockedCells(state.canvas)

\* the grid every game starts with
FreshGrid(canvas) ==
    /\ Len(canvas) = height
    /\ \A j \in 1..height :
         /\ Len(canvas[j]) = GRID_WIDTH
         /\ \A i \in 1..GRID_WIDTH : canvas[j][i].colour = "none"

\* C8: a rotation command in a game-over state gives the fresh initial state
\* with highScore equal to the score of the game that ended.
C8_Restart ==
    (event.type = "rotation" /\ prev.gameEnd) =>
        /\ FreshGrid(state.canvas)
        /\ FreshGrid(state.previewCanvas)
        /\ state.score = 0
        /\ state.level = 1
        /\ ~state.gameEnd
        /\ state.activeBlockPositions = <<>>
        /\ state.nextTetromino = first
        /\ state.highScore = prev.score

\* a restart after a game with a cleared row
C8_Witness ==
    event.type = "rotation" /\ prev.gameEnd /\ prev.score > 0 /\ Len(prev.canvas) > height

\* C9: in a game-over state a tick or a movement command keeps gameEnd, score,
\* level, highScore, the preview grid, nextTetromino, and the occupancy and
\* active flag of every cell; a colour may only turn grey.  Only a rotation
\* command leaves the game-over state.
C9_GameOverAbsorbing ==
    /\ (prev.gameEnd /\ event.type \in {"tick", "movement"}) =>
         /\ state.gameEnd
         /\ state.score = prev.score
         /\ state.level = prev.level
         /\ state.highScore = prev.highScore
         /\ state.previewCanvas = prev.previewCanvas
         /\ state.nextTetromino = prev.nextTetromino
         /\ DOMAIN state.canvas = DOMAIN prev.canvas
         /\ \A j \in DOMAIN prev.canvas :
              /\ DOMAIN state.canvas[j] = DOMAIN prev.canvas[j]
              /\ \A i \in DOMAIN prev.canvas[j] :
                   /\ (state.canvas[j][i].colour = "none") = (prev.canvas[j][i].colour = "none")
                   /\ state.canvas[j][i].isActive = prev.canvas[j][i].isActive
                   /\ state.canvas[j][i].colour \in {prev.canvas[j][i].colour, "grey"}
    /\ (prev.gameEnd /\ ~state.gameEnd) => event.type = "rotation"

\* a movement command in a game-over state that turns blocks grey
C9_Witness ==
    prev.gameEnd /\ event.type = "movement" /\ state.gameEnd /\ state.canvas # prev.canvas

\* C10: the tick that sets gameEnd assigns the score of the ended game to
\* highScore, whatever highScore was; no other event changes highScore.
C10_HighScore ==
    IF ~prev.gameEnd /\ state.gameEnd
    THEN /\ state.highScore = state.score
         /\ state.highScore = prev.score
                + (Cardinality(CompleteRows(prev.canvas)) * 100 * prev.level) \div 2
    ELSE state.highScore = prev.highScore

\* a game that ends with a score below the high score
C10_Witness == ~prev.gameEnd /\ state.gameEnd /\ prev.highScore > state.highScore

RECURSIVE SumOf(_, _)
\* the sum of coordinate c ("x" or "y") over a set of cells
SumOf(cells, c) ==
    IF cells = {} THEN 0
    ELSE LET one == CHOOSE cell \in cells : TRUE IN one[c] + SumOf(cells \ {one}, c)

\* round(c + R(p - c)) for the cell p of a piece: c is the mean of the cells,
\* not rounded, R is (x, y) -> (y, -x) for direction 1 and (x, y) -> (-y, x)
\* for direction -1, and a half is rounded up.  Everything is kept multiplied
\* by the number of cells until the rounding.
RotatedCell(p, cells, dir) ==
    LET n == Cardinality(cells)
        sx == SumOf(cells, "x")
        sy == SumOf(cells, "y")
        rx == n * p.x - sx
        ry == n * p.y - sy
        qx == IF dir = 1 THEN ry ELSE 0 - ry
        qy == IF dir = 1 THEN 0 - rx ELSE rx
    IN [x |-> (2 * (qx + sx) + n) \div (2 * n), y |-> (2 * (qy + sy) + n) \div (2 * n)]

RotatedCells(canvas, dir) ==
    {RotatedCell(p, ActiveCells(canvas), dir) : p \in ActiveCells(canvas)}

\* some rotated cell is outside the grid or on a locked block
RotationBlocked(canvas, dir) ==
    \E q \in RotatedCells(canvas, dir) : ~InGrid(q) \/ q \in LockedCells(canvas)

\* a rotation command on a falling piece
RotationOn == event.type = "rotation" /\ ~prev.gameEnd /\ ActiveCells(prev.canvas) # {}

\* C11: a rotation command whose rotated cells overlap a locked block or leave
\* the grid returns the state it was given: the same grid, the same active
\* cells, no shifted placement.
C11_RotationRejected ==
    (RotationOn /\ RotationBlocked(prev.canvas, event.direction)) => state = prev

\* a rotation refused because a rotated cell, inside the grid, is on a locked block
C11_Witness ==
    /\ RotationOn
    /\ \A q \in RotatedCells(prev.canvas, event.direction) : InGrid(q) /\ q.y > 0
    /\ RotatedCells(prev.canvas, event.direction) \cap LockedCells(prev.canvas) # {}
    /\ state = prev

\* a movement command on a falling piece
MovementOn == event.type = "movement" /\ ~prev.gameEnd /\ ActiveCells(prev.canvas) # {}

\* C12: checkCollision, given a grid, the cells of the falling piece and a
\* delta, reports a collision exactly when some destination is outside the
\* grid (y < 0, y >= height, x < 0, x >= width) or on a locked block.
C12_CollisionDetector ==
    MovementOn =>
        (checkCollision(prev.canvas, updateActiveBlocks(prev.canvas), event.direction)
            <=> Blocked(prev.canvas, event.direction.x, event.direction.y))

\* C13: score is a non-negative integer, level a positive integer and
\* level = floor(score / 500) + 1 in every state; a tick that clears k rows
\* adds k * 100 * level / 2 points, level being the level before the tick.
C13_ScoreLevel ==
    /\ state.score \in Nat
    /\ state.level \in Nat \ {0}
    /\ 500 * (state.level - 1) <= state.score
    /\ state.score < 500 * state.level
    /\ SpawnTick =>
         state.score = prev.score + Cardinality(CompleteRows(prev.canvas)) * 50 * prev.level

\* four rows cleared at level 2 are worth 400 points
C13_Witness ==
    /\ SpawnTick
    /\ prev.level = 2
    /\ Cardinality(CompleteRows(prev.canvas)) = 4
    /\ state.score = prev.score + 400

\* the occupied cells of a grid
Occupied(canvas) == ActiveCells(canvas) \cup LockedCells(canvas)

\* the cells of a catalogue piece placed somewhere in the grid
Shows(cells, piece) ==
    \E dx \in 0..(GRID_WIDTH - 1) : \E dy \in 0..(height - 1) :
        cells = {[x |-> Tetromino(piece)[n][2] + dx, y |-> Tetromino(piece)[n][3] + dy] : n \in 1..4}

\* C14: while the game is not over the preview grid shows nextTetromino and
\* nothing else, so the piece a tick spawns is the piece the preview grid
\* showed before that tick.
C14_Preview ==
    /\ ~state.gameEnd => Shows(Occupied(state.previewCanvas), state.nextTetromino)
    /\ (SpawnTick /\ ~state.gameEnd) =>
          Shows(Occupied(prev.previewCanvas), prev.nextTetromino)

\* C15: the tick processed with no active cell leaves no row that is full of
\* locked blocks, whether it spawns a piece or ends the game; so no state
\* with an active cell has such a row.
C15_CompleteRowsCleared ==
    /\ SpawnTick => CompleteRows(state.canvas) = {}
    /\ ActiveCells(state.canvas) # {} => CompleteRows(state.canvas) = {}

\* a tick that clears four rows at once and spawns the next piece
C15_Witness ==
    /\ SpawnTick
    /\ Cardinality(CompleteRows(prev.canvas)) = 4
    /\ ActiveCells(state.canvas) # {}
    /\ CompleteRows(state.canvas) = {}

\* C16: while the game is not over, a movement command, a rotation command
\* and a tick processed with active cells leave every locked block where it
\* is, with its colour and its inactive flag.
C16_LockedStay ==
    (~prev.gameEnd /\ (event.type \in {"movement", "rotation"} \/ GravityTick)) =>
        /\ Len(state.canvas) = Len(prev.canvas)
        /\ \A p \in LockedCells(prev.canvas) :
             state.canvas[p.y + 1][p.x + 1] = prev.canvas[p.y + 1][p.x + 1]

\* a rotation that is accepted right beside a locked block
C16_Witness ==
    /\ RotationOn
    /\ state.canvas # prev.canvas
    /\ Shift(ActiveCells(state.canvas), 1, 0) \cap LockedCells(prev.canvas) # {}

\* C17: handling an event leaves the state it was given as it was: every
\* cell of that state's grid has the colour and the active flag it had when
\* the event arrived.
C17_SnapshotImmutable ==
    /\ DOMAIN given.canvas = DOMAIN prev.canvas
    /\ \A j \in DOMAIN prev.canvas : \A i \in DOMAIN prev.canvas[j] :
         /\ given.canvas[j][i].colour = prev.canvas[j][i].colour
         /\ given.canvas[j][i].isActive = prev.canvas[j][i].isActive

\* C18: a movement command that is not blocked (every destination is inside
\* the grid and not on a locked block) moves the piece as a whole: the active
\* cells after it are the active cells before it translated by the delta.
C18_RigidTranslation ==
    (MovementOn /\ ~Blocked(prev.canvas, event.direction.x, event.direction.y)) =>
        /\ ActiveCells(state.canvas)
             = Shift(ActiveCells(prev.canvas), event.direction.x, event.direction.y)
        /\ Cardinality(ActiveCells(state.canvas)) = Cardinality(ActiveCells(prev.canvas))

\* the cells of a list of positions
CellsIn(positions) == {positions[n] : n \in DOMAIN positions}

\* C19: a rotation command whose rotated cells do not collide (each is inside
\* the grid and not on a locked block) puts the piece on the rotated cells:
\* they are the active cells, they have the colour the piece had, they are
\* the stored active positions, and no other cell of the grid has changed.
C19_AcceptedRotation ==
    (RotationOn /\ ~RotationBlocked(prev.canvas, event.direction)) =>
        LET old == ActiveCells(prev.canvas)
            new == RotatedCells(prev.canvas, event.direction)
        IN /\ ActiveCells(state.canvas) = new
           /\ \A p \in new : \A o \in old :
                state.canvas[p.y + 1][p.x + 1].colour = prev.canvas[o.y + 1][o.x + 1].colour
           /\ CellsIn(state.activeBlockPositions) = new
           /\ Len(state.canvas) = Len(prev.canvas)
           /\ \A j \in DOMAIN prev.canvas : \A i \in DOMAIN prev.canvas[j] :
                [x |-> i - 1, y |-> j - 1] \notin (old \cup new)
                    => state.canvas[j][i] = prev.canvas[j][i]

\* C20: after every event the stored activeBlockPositions are the coordinates
\* of the cells flagged active in the grid of the same state, each once.
C20_ActivePositionsInSync ==
    event.type # "init" =>
        /\ CellsIn(state.activeBlockPositions) = ActiveCells(state.canvas)
        /\ Len(state.activeBlockPositions) = Cardinality(ActiveCells(state.canvas))

\* the blocks of a set of cells of a grid: each cell with its colour
Coloured(canvas, cells) == {<<c, canvas[c.y + 1][c.x + 1].colour>> : c \in cells}

\* The locked blocks of the grid a line clear leaves: the complete rows are
\* gone and every block above a complete row is one row lower for each
\* complete row below it.
ClearedLocked(canvas) ==
    {<<[x |-> c.x, y |-> c.y + Cardinality({j \in CompleteRows(canvas) : j - 1 > c.y})],
       canvas[c.y + 1][c.x + 1].colour>> :
        c \in {d \in LockedCells(canvas) : d.y + 1 \notin CompleteRows(canvas)}}

C22_OneTransitionPerEvent ==
    /\ (~prev.gameEnd /\ event.type \in {"movement", "rotation"}) =>
         /\ state.score = prev.score
         /\ state.level = prev.level
         /\ state.highScore = prev.highScore
         /\ state.gameEnd = prev.gameEnd
         /\ state.previewCanvas = prev.previewCanvas
         /\ state.nextTetromino = prev.nextTetromino
         /\ Len(state.canvas) = Len(prev.canvas)
         /\ Cardinality(ActiveCells(state.canvas)) = Cardinality(ActiveCells(prev.canvas))
         /\ Coloured(state.canvas, LockedCells(state.canvas))
              = Coloured(prev.canvas, LockedCells(prev.canvas))
    /\ GravityTick =>
         \E d \in 0..height :
             ActiveCells(state.canvas) \cup (LockedCells(state.canvas) \ LockedCells(prev.canvas))
                 = Shift(ActiveCells(prev.canvas), 0, d)

\* a movement command that arrives while a complete row waits for the next tick
C22_Witness ==
    /\ event.type = "movement"
    /\ ~prev.gameEnd
    /\ CompleteRows(prev.canvas) # {}
    /\ state = prev

\* the number of ticks within which a falling piece is locked
MaxTicks == 25

RECURSIVE AfterTicks(_, _)
\* the state after at most n ticks and no command: the ticks stop when no
\* cell is active
AfterTicks(s, n) ==
    IF n = 0 \/ s.gameEnd \/ ActiveCells(s.canvas) = {} THEN s
    ELSE AfterTicks(reducer(s, TickEvent, first, 0), n - 1)

\* C23: when only ticks arrive, a falling piece is locked after finitely many
\* of them (at most MaxTicks), at every level: no cell is active then, and
\* the cells of the piece are locked in their columns, some rows lower.
C23_EventuallyLocks ==
    (~state.gameEnd /\ ActiveCells(state.canvas) # {}) =>
        LET end == AfterTicks(state, MaxTicks)
        IN /\ ActiveCells(end.canvas) = {}
           /\ \E d \in 0..height :
                Shift(ActiveCells(state.canvas), 0, d)
                    = LockedCells(end.canvas) \ LockedCells(state.canvas)

\* at level 2 a tick on a piece that rests on the floor row does not lock it;
\* the piece is still falling and locks on a later tick
C23_Witness ==
    /\ GravityTick
    /\ prev.level = 2
    /\ \E c \in ActiveCells(prev.canvas) : c.y = height - 1
    /\ ActiveCells(state.canvas) # {}
    /\ ActiveCells(AfterTicks(state, MaxTicks).canvas) = {}

\* C24: gravity and locking do not depend on the level: a piece with a cell
\* in the floor row height-1 is locked by the tick it meets there, at level 1
\* and at every higher level alike.
C24_FloorLocksAtEveryLevel ==
    (GravityTick /\ \E c \in ActiveCells(prev.canvas) : c.y = height - 1)
        => ActiveCells(state.canvas) = {}

\* C25: in every reachable state every occupied entry of the canvas, active or
\* locked, is in rows 0..height-1 and columns 0..GRID_WIDTH-1; the rows a line
\* clear appends below the floor row stay empty.
C25_BlocksInsideGrid ==
    \A j \in DOMAIN state.canvas : \A i \in DOMAIN state.canvas[j] :
        state.canvas[j][i].colour # "none" => j <= height /\ i <= GRID_WIDTH

\* after line clears have lengthened the canvas, a tick on a piece in the
\* floor row leaves it where it is
C25_Witness ==
    /\ GravityTick
    /\ Len(prev.canvas) > height
    /\ \E c \in ActiveCells(prev.canvas) : c.y = height - 1
    /\ ActiveCells(state.canvas) = ActiveCells(prev.canvas)
    /\ LockedCells(state.canvas) # {}

\* C26: for every seed the hash is an integer in [0, 2^31) and its scaled
\* value is an integer in 0..6, so the piece drawn, for the initial state and
\* in every spawn, is one of the 7 pieces of the catalogue.
C26_PieceSelectionValid ==
    LET h == hash(event.seed)
    IN /\ h \in 0..2147483647
       /\ scale(h) \in 0..6
       /\ state.nextTetromino = scale(h)
       /\ state.nextTetromino \in PieceIds

\* a spawn draws the last piece of the catalogue from a reading of the clock,
\* whose hash has lost its low binary digits to rounding; the seeds draw
\* every piece of the catalogue
C26_Witness ==
    /\ event.type = "tick"
    /\ event.seed[3] = Now[3]
    /\ state.nextTetromino = Len(allTetrominoes) - 1
    /\ ActiveCells(state.canvas) = SpawnCells(prev.nextTetromino)
    /\ hash(event.seed) % 262144 = 0
    /\ {Drawn[seed] : seed \in Seeds} = PieceIds

\* C27: in a state that is not game over and has no active cell, every
\* movement command and every rotation command returns the state unchanged.
C27_CommandsWithoutPiece ==
    (/\ event.type \in {"movement", "rotation"}
     /\ ~prev.gameEnd
     /\ ActiveCells(prev.canvas) = {})
        => state = prev

\* a command between the lock of a piece and the next spawn: the stored
\* positions still list the cells of the locked piece
C27_Witness ==
    /\ event.type \in {"movement", "rotation"}
    /\ ~prev.gameEnd
    /\ ActiveCells(prev.canvas) = {}
    /\ LockedCells(prev.canvas) # {}
    /\ Len(prev.activeBlockPositions) > 0
    /\ state = prev

\* C28: in every reachable state the main grid has no active cell or four,
\* and all active cells have the same colour.
C28_OnePieceFalling ==
    LET active == ActiveCells(state.canvas)
    IN /\ Cardinality(active) \in {0, 4}
       /\ Cardinality({pair[2] : pair \in Coloured(state.canvas, active)}) <= 1

\* a piece that a command has just turned or moved, above locked blocks
C28_Witness ==
    /\ event.type \in {"movement", "rotation"}
    /\ ActiveCells(state.canvas) # ActiveCells(prev.canvas)
    /\ LockedCells(state.canvas) # {}
    /\ Cardinality(ActiveCells(state.canvas)) = 4
    /\ Cardinality({pair[2] : pair \in Coloured(state.canvas, ActiveCells(state.canvas))}) = 1

\* a quarter turn of an offset: (x, y) -> (y, -x) for direction 1 and
\* (x, y) -> (-y, x) for direction -1
QuarterTurn(v, dir) ==
    IF dir = 1 THEN [x |-> v.y, y |-> 0 - v.x] ELSE [x |-> 0 - v.y, y |-> v.x]

\* a rotation command on a falling piece that rotateTetromino does not refuse
RotationAccepted ==
    /\ RotationOn
    /\ ~checkCollision(prev.canvas,
                       updatedBlocks(updateActiveBlocks(prev.canvas), event.direction),
                       [x |-> 0, y |-> 0])

\* C29: an accepted rotation leaves four distinct active cells, and their
\* offsets from one another are the offsets of the cells before, turned by a
\* quarter turn: no two cells are merged and the piece is not distorted.
C29_RotationPreservesShape ==
    RotationAccepted =>
        LET old == ActiveCells(prev.canvas)
            new == ActiveCells(state.canvas)
        IN /\ Cardinality(new) = 4
           /\ \E from \in old : \E to \in new :
                new = {[x |-> to.x + QuarterTurn([x |-> o.x - from.x, y |-> o.y - from.y],
                                                 event.direction).x,
                        y |-> to.y + QuarterTurn([x |-> o.x - from.x, y |-> o.y - from.y],
                                                 event.direction).y] : o \in old}

\* an accepted rotation of a piece whose centre of rotation is not on a cell
\* or between two: the rotated coordinates are rounded
C29_Witness ==
    /\ RotationAccepted
    /\ SumOf(ActiveCells(prev.canvas), "x") % 2 = 1
    /\ SumOf(ActiveCells(prev.canvas), "y") % 2 = 1
    /\ ActiveCells(state.canvas) # ActiveCells(prev.canvas)
    /\ Cardinality(ActiveCells(state.canvas)) = 4

\* the cells of a square piece: a block of two by two cells
IsSquare(cells) ==
    \E corner \in cells :
        cells = {[x |-> corner.x + dx, y |-> corner.y + dy] : dx \in {0, 1}, dy \in {0, 1}}

\* C30: an accepted rotation of the square piece, in either direction, leaves
\* the set of active cells exactly as it was.
C30_SquareRotationIdentity ==
    (RotationAccepted /\ IsSquare(ActiveCells(prev.canvas)))
        => ActiveCells(state.canvas) = ActiveCells(prev.canvas)

\* an accepted rotation of a square that falls above locked blocks
C30_Witness ==
    /\ RotationAccepted
    /\ IsSquare(ActiveCells(prev.canvas))
    /\ LockedCells(prev.canvas) # {}
    /\ IsSquare(ActiveCells(state.canvas))
    /\ state.canvas = prev.canvas

\* some active cell of the grid is in row 0
TouchesTop(canvas) == \E top \in ActiveCells(canvas) : top.y = 0

\* C31: a left or right command on a piece with a cell in row 0 is refused,
\* and so is a rotation one of whose rotated cells is in row 0: the grid stays
\* as it was.  An active cell is in row 0 only if a spawn has put it there
\* and the piece has not moved since, and a piece with a cell in row 0 stays
\* where it is, goes down or is locked.
C31_RowZeroOnlyBySpawn ==
    /\ (MovementOn /\ event.direction.x # 0 /\ TouchesTop(prev.canvas))
            => state.canvas = prev.canvas
    /\ (RotationOn /\ \E turned \in RotatedCells(prev.canvas, event.direction) : turned.y = 0)
            => state.canvas = prev.canvas
    /\ (event.type # "init" /\ TouchesTop(state.canvas))
            => \/ SpawnTick /\ ~TouchesTop(prev.canvas)
               \/ ActiveCells(state.canvas) = ActiveCells(prev.canvas)
    /\ (event.type # "init" /\ TouchesTop(prev.canvas))
            => \/ ActiveCells(state.canvas) = {}
               \/ \E down \in 0..height :
                    ActiveCells(state.canvas) = Shift(ActiveCells(prev.canvas), 0, down)

\* a left or right command on a piece in rows 0 and 1 with nothing in its
\* way is refused
C31_Witness ==
    /\ MovementOn
    /\ event.direction.x # 0
    /\ TouchesTop(prev.canvas)
    /\ ~Blocked(prev.canvas, event.direction.x, 0)
    /\ state.canvas = prev.canvas
    /\ TouchesTop(state.canvas)

\* the restart: a rotation command handled in a game-over state
RestartOn == event.type = "rotation" /\ prev.gameEnd

\* C32: from one restart to the next score and level never decrease; they
\* change only in a tick handled in a state that is not game over and has no
\* active cell; and only the restart puts score back to 0 and level to 1.
C32_ScoreLevelMonotone ==
    event.type # "init" =>
        /\ RestartOn => state.score = 0 /\ state.level = 1
        /\ ~RestartOn =>
              /\ state.score >= prev.score
              /\ state.level >= prev.level
              /\ (state.score # prev.score \/ state.level # prev.level) => SpawnTick

\* a tick that clears rows in a game that has points already raises the
\* score and the level
C32_Witness ==
    /\ SpawnTick
    /\ state.score > prev.score
    /\ state.level > prev.level
    /\ prev.score > 0

\* the number of ticks within which a game without a command is over
MaxIdleTicks == 360

\* C33: when only ticks arrive, the game that begins in the initial state is
\* over after finitely many of them (at most MaxIdleTicks), whatever pieces
\* are drawn: until then the next tick is handled, so no game stops short of
\* game over.
C33_GameEndsWithoutInput ==
    /\ pc <= MaxIdleTicks
    /\ pc = MaxIdleTicks => state.gameEnd

\* the tick that ends a game of mixed pieces: a locked block is in row 0
C33_Witness ==
    /\ event.type = "tick"
    /\ ~prev.gameEnd
    /\ state.gameEnd
    /\ script # 0
    /\ pc > height
    /\ \E top \in LockedCells(state.canvas) : top.y = 0

\* C34: in every reachable state with gameEnd true the main grid has no
\* active cell and row 0 holds at least one locked block.
C34_GameOverShape ==
    state.gameEnd =>
        /\ ActiveCells(state.canvas) = {}
        /\ \E top \in LockedCells(state.canvas) : top.y = 0

\* a game-over state after a command was handled in game over: the blocks are
\* grey and the block of row 0 is still there
C34_Witness ==
    /\ state.gameEnd
    /\ prev.gameEnd
    /\ event.type = "movement"
    /\ ActiveCells(state.canvas) = {}
    /\ \E top \in LockedCells(state.canvas) :
          top.y = 0 /\ state.canvas[top.y + 1][top.x + 1].colour = "grey"

\* C35: checkForTetris applied to the state it has returned changes neither
\* the grid nor the score nor the level, and applied to a state whose grid
\* has no complete row it changes nothing.
C35_ClearIdempotent ==
    LET once == checkForTetris(state)
        twice == checkForTetris(once)
    IN /\ CompleteRows(once.canvas) = {}
       /\ twice.canvas = once.canvas
       /\ twice.score = once.score
       /\ twice.level = once.level
       /\ twice = once
       /\ CompleteRows(state.canvas) = {} => once = state

\* a grid with more than one complete row and blocks above them: the first
\* pass changes grid, score and level
C35_Witness ==
    /\ Cardinality(CompleteRows(state.canvas)) > 1
    /\ ActiveCells(state.canvas) = {}
    /\ checkForTetris(state).canvas # state.canvas
    /\ checkForTetris(state).score > state.score
    /\ checkForTetris(state).level > state.level
    /\ LockedCells(checkForTetris(state).canvas) # {}
    /\ checkForTetris(checkForTetris(state)) = checkForTetris(state)

====
